---- MODULE Spec2Model ----
(***************************************************************************)
(* Streaming audio-shader engine (WebGLAudioShader with a background       *)
(* render worker).  The main context (scheduler tick, worker-message       *)
(* handler, lifecycle calls, readiness polls) and the worker context       *)
(* (self.onmessage) exchange messages over two FIFO queues.                *)
(*                                                                         *)
(* Time is counted in sample periods of the audio device (1/SampleRate s), *)
(* so a buffer of n samples lasts n time units and every value the code    *)
(* computes with floats is an exact integer here.                          *)
(***************************************************************************)
EXTENDS Integers, Sequences, FiniteSets, TLC

\* ------------------------------------------------------------------ bounds
MaxEvents  == 3   \* user calls after init() plus advances of the device clock
MaxRenders == 2   \* render requests posted over a behaviour

SteadyRenders == 9  \* render requests posted over a steady-load behaviour
SteadyQuanta  == 6  \* playback quanta the device clock advances by, there

MaxBatchEvents == 4  \* user calls made on the batch instance
BatchSeconds   == 2  \* bufferDuration of the batch instance, in seconds

\* --------------------------------------------------------------- constants
SampleRate            == 48000                 \* audioContext.sampleRate
DefaultMaxTextureSize == 4096                  \* constructor / worker default
HardCap               == 8192                  \* Math.min(maxTextureSize, 8192)
BufferAheadTime       == 1 * SampleRate        \* bufferAheadTime = 1.0 s
SafetyMargin          == SampleRate \div 10    \* now + 0.1 s
ClockStep             == (3 * SampleRate) \div 10  \* one advance of the device clock: 0.3 s

PlaybackQuantum       == HardCap \div 2         \* half a chunk of device time

\* Shader sources: "A" and "B" compile and link, "X" does not build (the GLSL
\* compiler rejects it, or the linker does).  init() is given "A", "X" or no
\* source at all (NoCode); setShader() is given "B" or "X".
NoCode       == "none"
InitPrograms == {"A", "X", NoCode}
Programs     == {"B", "X"}
Null         == "null"

\* Where a source that does not build is rejected.
FailStages == {"compile", "link"}

\* gl.MAX_TEXTURE_SIZE of the devices considered.
DeviceWidths == {16384}

\* The source builds: both shaders compile and the program links.
Compilable(p) == p \in {"A", "B"}
\* gl.getShaderParameter(shader, gl.COMPILE_STATUS) for the fragment shader.
Compiles(p, stage) == Compilable(p) \/ stage # "compile"
\* gl.getProgramParameter(program, gl.LINK_STATUS)
Links(p) == Compilable(p)

Min(a, b) == IF a < b THEN a ELSE b
Max(a, b) == IF a > b THEN a ELSE b

VARIABLES
  \* ---- environment
  env,              \* [hasGL, hasFloatExt, maxTex]: what the device offers
  deviceNow,        \* audioContext.currentTime
  closeCalls,       \* audioContext.close() calls made; closed once there is one
  \* ---- WebGLAudioShader instance (main context)
  isRunning, currentTime, scheduledUntil, scheduledSources, maxTextureSize,
  generating, workerReady, shaderCode,
  initStatus,       \* "notcalled" | "pending" | "resolved" : promise of init()
  loopStarted,      \* generationLoop has been started by init()
  calls,            \* the setShader invocations and where each one waits
  disposed,         \* terminate()/close() have been called
  \* ---- worker context
  worker,           \* [gl, program, inUse, maxTextureSize, currentWidth, attribs]
                    \* and builtBy: the setShader call whose program is in use
  inbox,            \* messages main -> worker, FIFO
  outbox,           \* messages worker -> main, FIFO
  \* ---- history (what was scheduled, for stating the properties)
  units,            \* every PlaybackUnit ever scheduled
  nextReq,          \* number of render requests posted
  period,           \* number of Running periods begun
  staleReqs,        \* requests that were in flight at some stop()
  discarded,        \* requests whose chunk onAudioDataGenerated dropped
  events,           \* user calls and clock advances so far
  \* ---- batch variant (src/index.js): a separate program with its own state
  player,           \* its WebGLAudioShader: [audioContext, sourceNode, shader,
                    \* isRunning, audioBuffer]
  renderers,        \* every WebGLShaderRenderer constructed, in order
  runs,             \* the setShader invocations and where each one waits
  timers,           \* setTimeout(resolve, 0) callbacks pending, FIFO
  asked,            \* history: the generateAudio calls made, by segment
  batchEvents       \* user calls made on the batch instance so far

mainVars   == <<isRunning, currentTime, scheduledUntil, scheduledSources,
                maxTextureSize, generating, workerReady, shaderCode,
                initStatus, loopStarted, calls, disposed>>
workerVars == <<worker, inbox, outbox>>
histVars   == <<units, nextReq, period, staleReqs, discarded, events>>
batchVars  == <<player, renderers, runs, timers, asked, batchEvents>>
vars       == <<env, deviceNow, closeCalls, mainVars, workerVars, histVars,
                batchVars>>

\* ------------------------------------------------------------- messages
\* after: how many setShader calls had been made when the message was posted.
InitMsg(p, c)    == [type |-> "init", shaderCode |-> p, numSamples |-> 0,
                     timeOffset |-> 0, id |-> c, after |-> c]
UpdateMsg(p, c)  == [type |-> "updateShader", shaderCode |-> p, numSamples |-> 0,
                     timeOffset |-> 0, id |-> c, after |-> c]
RenderMsg(n, t, r) == [type |-> "render", shaderCode |-> Null, numSamples |-> n,
                     timeOffset |-> t, id |-> r, after |-> Len(calls)]

ReadyMsg(c)      == [type |-> "ready", size |-> 0, timeOffset |-> 0,
                     prog |-> 0, id |-> c, error |-> Null]
SizeMsg(n)       == [type |-> "maxTextureSize", size |-> n, timeOffset |-> 0,
                     prog |-> 0, id |-> 0, error |-> Null]
AudioMsg(n, t, p, r) == [type |-> "audioData", size |-> n, timeOffset |-> t,
                     prog |-> p, id |-> r, error |-> Null]
ErrorMsg(e, r)   == [type |-> "error", size |-> 0, timeOffset |-> 0,
                     prog |-> 0, id |-> r, error |-> e]

\* The error message for render request m; it is tagged with the timeOffset of
\* the request it answers.
RenderErrorMsg(e, m) == [ErrorMsg(e, m.id) EXCEPT !.timeOffset = m.timeOffset]
RenderErrors == {"Framebuffer error", "Generation failed"}

\* postMessage that puts the message at the head of the worker's queue.
PostToWorkerFirst(q, m) == IF disposed THEN q ELSE <<m>> \o q

\* renderWorker.postMessage: a terminated worker receives nothing.
PostToWorker(q, m) == IF disposed THEN q ELSE Append(q, m)

Init ==
  /\ env \in [hasGL : BOOLEAN, hasFloatExt : BOOLEAN, maxTex : DeviceWidths]
  /\ env.hasGL \/ ~env.hasFloatExt
  /\ deviceNow = 0
  /\ closeCalls = 0
  /\ isRunning = FALSE
  /\ currentTime = 0
  /\ scheduledUntil = 0
  /\ scheduledSources = <<>>
  /\ maxTextureSize = DefaultMaxTextureSize
  /\ generating = FALSE
  /\ workerReady = FALSE
  /\ shaderCode = Null
  /\ initStatus = "notcalled"
  /\ loopStarted = FALSE
  /\ calls = <<>>
  /\ disposed = FALSE
  /\ worker = [gl |-> FALSE, program |-> Null, inUse |-> Null, builtBy |-> 0,
               maxTextureSize |-> DefaultMaxTextureSize, currentWidth |-> 0,
               attribs |-> FALSE]
  /\ inbox = <<>>
  /\ outbox = <<>>
  /\ units = <<>>
  /\ nextReq = 0
  /\ period = 0
  /\ staleReqs = {}
  /\ discarded = {}
  /\ events = 0
  /\ player = [audioContext |-> Null, sourceNode |-> FALSE, shader |-> 0,
               isRunning |-> FALSE, audioBuffer |-> 0]
  /\ renderers = <<>>
  /\ runs = <<>>
  /\ timers = <<>>
  /\ asked = <<>>
  /\ batchEvents = 0

\* ------------------------------------------------------------- helpers
Range(q) == {q[i] : i \in DOMAIN q}

RECURSIVE Without(_, _)
\* Array.splice(indexOf(x), 1): the sequence q with its first x removed.
Without(q, x) ==
  IF q = <<>> THEN <<>>
  ELSE IF Head(q) = x THEN Tail(q)
  ELSE <<Head(q)>> \o Without(Tail(q), x)

\* buffer.duration of an AudioBuffer of numSamples frames, in sample periods.
BufferDuration(numSamples) == (numSamples * SampleRate) \div SampleRate

\* Render requests posted whose chunk has not reached the main context.
InFlight ==
  {inbox[i].id : i \in {j \in DOMAIN inbox : inbox[j].type = "render"}}
  \cup {outbox[i].id : i \in {j \in DOMAIN outbox : outbox[j].type = "audioData"}}

\* A setShader call that was made while running, for a program that compiles
\* and links, whose ready message has not reached the main context yet.
SwapPending(c) ==
  /\ calls[c].wasRunning
  /\ Compilable(calls[c].code)
  /\ ~calls[c].readySeen

\* ------------------------------------------------- lifecycle: start, stop
\* start() without its early return: restarts the timeline even when running.
startWithoutGuard ==
  /\ isRunning' = TRUE
  /\ scheduledUntil' = deviceNow
  /\ currentTime' = 0
  /\ period' = period + 1

\* start() that does not initialise the watermark.
startKeepsWatermark ==
  IF isRunning
  THEN UNCHANGED <<isRunning, scheduledUntil, currentTime, period>>
  ELSE /\ isRunning' = TRUE
       /\ scheduledUntil' = scheduledUntil
       /\ currentTime' = 0
       /\ period' = period + 1

\* start(): no-op when running, else a new Running period from deviceNow.
start ==
  IF isRunning
  THEN UNCHANGED <<isRunning, scheduledUntil, currentTime, period>>
  ELSE /\ isRunning' = TRUE
       /\ scheduledUntil' = deviceNow
       /\ currentTime' = 0
       /\ period' = period + 1

\* stop() that forgets to reset the watermark.
stopKeepsWatermark ==
  /\ isRunning' = FALSE
  /\ units' = [i \in DOMAIN units |->
                 IF i \in Range(scheduledSources)
                 THEN [units[i] EXCEPT !.halted = TRUE] ELSE units[i]]
  /\ scheduledSources' = <<>>
  /\ currentTime' = 0
  /\ scheduledUntil' = scheduledUntil
  /\ staleReqs' = staleReqs \cup InFlight

\* stop(): halts and forgets every tracked source, resets the timeline.
stop ==
  /\ isRunning' = FALSE
  /\ units' = [i \in DOMAIN units |->
                 IF i \in Range(scheduledSources)
                 THEN [units[i] EXCEPT !.halted = TRUE] ELSE units[i]]
  /\ scheduledSources' = <<>>
  /\ currentTime' = 0
  /\ scheduledUntil' = 0
  /\ staleReqs' = staleReqs \cup InFlight

\* ------------------------------------------------- Generation Scheduler
\* The request condition with the safety margin as its lookahead target.
ShouldRequestBelowMargin ==
  /\ isRunning
  /\ scheduledUntil - deviceNow < SafetyMargin
  /\ workerReady
  /\ ~generating

\* The request condition without its test of the readiness flag.
ShouldRequestIgnoresReady ==
  /\ isRunning
  /\ scheduledUntil - deviceNow < BufferAheadTime
  /\ ~generating

\* The condition under which generationLoop posts a render request.
ShouldRequest ==
  /\ isRunning
  /\ scheduledUntil - deviceNow < BufferAheadTime
  /\ workerReady
  /\ ~generating

\* One invocation of generationLoop(), at most `bound` requests being posted
\* over a behaviour.
generationLoopUpTo(bound) ==
  IF ShouldRequest
  THEN /\ nextReq < bound
       /\ generating' = TRUE
       /\ inbox' = PostToWorker(inbox,
                     RenderMsg(Min(maxTextureSize, HardCap), currentTime, nextReq + 1))
       /\ nextReq' = nextReq + 1
  ELSE UNCHANGED <<generating, inbox, nextReq>>

generationLoop == generationLoopUpTo(MaxRenders)

\* requestAnimationFrame callback.
Tick ==
  /\ loopStarted
  /\ generationLoop
  /\ UNCHANGED <<env, batchVars, closeCalls, deviceNow, isRunning, currentTime, scheduledUntil,
                 scheduledSources, maxTextureSize, workerReady, shaderCode,
                 initStatus, loopStarted, calls, disposed, worker, outbox,
                 units, period, staleReqs, discarded, events>>

\* requestAnimationFrame callback, in the steady-load behaviours.
SteadyTick ==
  /\ loopStarted
  /\ generationLoopUpTo(SteadyRenders)
  /\ UNCHANGED <<env, batchVars, closeCalls, deviceNow, isRunning, currentTime,
                 scheduledUntil, scheduledSources, maxTextureSize, workerReady,
                 shaderCode, initStatus, loopStarted, calls, disposed, worker,
                 outbox, units, period, staleReqs, discarded, events>>

\* --------------------------------------------------- Playback Scheduler
\* onAudioDataGenerated without its isRunning check.
ScheduleAlways == TRUE

\* The guard at the top of onAudioDataGenerated.
ShouldSchedule == isRunning

\* A start time that ignores the watermark.
StartTimeFromNow(su, now) == now + SafetyMargin

\* startTime = Math.max(this.scheduledUntil, now + 0.1)
StartTime(su, now) == Max(su, now + SafetyMargin)

\* onAudioDataGenerated(audioData) for the chunk carried by message m.
onAudioDataGenerated(m) ==
  IF ~ShouldSchedule
  THEN /\ discarded' = discarded \cup {m.id}
       /\ UNCHANGED <<scheduledSources, scheduledUntil, currentTime, units>>
  ELSE LET numSamples == m.size \div 2
           duration   == BufferDuration(numSamples)
           startTime  == StartTime(scheduledUntil, deviceNow)
           unit == [startTime |-> startTime, duration |-> duration,
                    timeOffset |-> m.timeOffset, prog |-> m.prog, req |-> m.id,
                    period |-> period, programTime |-> currentTime,
                    watermark |-> scheduledUntil, now |-> deviceNow,
                    halted |-> FALSE,
                    swapping |-> \E c \in DOMAIN calls : SwapPending(c)]
       IN /\ units' = Append(units, unit)
          /\ scheduledSources' = Append(scheduledSources, Len(units) + 1)
          /\ scheduledUntil' = startTime + duration
          /\ currentTime' = currentTime + duration
          /\ UNCHANGED discarded

\* renderWorker.onmessage, one action per message type.
OnReady ==
  /\ outbox # <<>> /\ Head(outbox).type = "ready"
  /\ outbox' = Tail(outbox)
  /\ workerReady' = TRUE
  /\ calls' = [c \in DOMAIN calls |->
                 IF c = Head(outbox).id THEN [calls[c] EXCEPT !.readySeen = TRUE]
                 ELSE calls[c]]
  /\ UNCHANGED <<env, batchVars, closeCalls, deviceNow, isRunning, currentTime, scheduledUntil,
                 scheduledSources, maxTextureSize, generating, shaderCode,
                 initStatus, loopStarted, disposed, worker, inbox, histVars>>

OnMaxTextureSize ==
  /\ outbox # <<>> /\ Head(outbox).type = "maxTextureSize"
  /\ outbox' = Tail(outbox)
  /\ maxTextureSize' = Head(outbox).size
  /\ UNCHANGED <<env, batchVars, closeCalls, deviceNow, isRunning, currentTime, scheduledUntil,
                 scheduledSources, generating, workerReady, shaderCode,
                 initStatus, loopStarted, calls, disposed, worker, inbox, histVars>>

OnAudioData ==
  /\ outbox # <<>> /\ Head(outbox).type = "audioData"
  /\ outbox' = Tail(outbox)
  /\ generating' = FALSE
  /\ onAudioDataGenerated(Head(outbox))
  /\ UNCHANGED <<env, batchVars, closeCalls, deviceNow, isRunning, maxTextureSize, workerReady,
                 shaderCode, initStatus, loopStarted, calls, disposed, worker,
                 inbox, nextReq, period, staleReqs, events>>

\* The error branch without its reset of the in-flight flag.
OnErrorKeepsFlag ==
  /\ outbox # <<>> /\ Head(outbox).type = "error"
  /\ outbox' = Tail(outbox)
  /\ UNCHANGED <<env, batchVars, closeCalls, deviceNow, mainVars, worker, inbox, histVars>>

OnError ==
  /\ outbox # <<>> /\ Head(outbox).type = "error"
  /\ outbox' = Tail(outbox)
  /\ generating' = FALSE
  /\ UNCHANGED <<env, batchVars, closeCalls, deviceNow, isRunning, currentTime, scheduledUntil,
                 scheduledSources, maxTextureSize, workerReady, shaderCode,
                 initStatus, loopStarted, calls, disposed, worker, inbox, histVars>>

\* source.onended: the device reports a tracked unit finished.
Ended(i) ==
  /\ i \in Range(scheduledSources)
  /\ units[i].startTime + units[i].duration <= deviceNow
  /\ scheduledSources' = Without(scheduledSources, i)
  /\ UNCHANGED <<env, batchVars, closeCalls, deviceNow, isRunning, currentTime, scheduledUntil,
                 maxTextureSize, generating, workerReady, shaderCode, initStatus,
                 loopStarted, calls, disposed, workerVars, histVars>>

\* The device clock advances.
AdvanceClock ==
  /\ events < MaxEvents
  /\ ~disposed
  /\ initStatus # "notcalled"
  /\ events' = events + 1
  /\ deviceNow' = deviceNow + ClockStep
  /\ UNCHANGED <<env, batchVars, closeCalls, mainVars, workerVars, units, nextReq, period, staleReqs,
                 discarded>>

\* The device plays one quantum of audio while generation keeps up: the
\* scheduler has nothing to ask for and no message is on its way.
Playback ==
  /\ deviceNow < SteadyQuanta * PlaybackQuantum
  /\ initStatus # "notcalled"
  /\ ~ShouldRequest /\ ~generating
  /\ inbox = <<>> /\ outbox = <<>>
  /\ deviceNow' = deviceNow + PlaybackQuantum
  /\ UNCHANGED <<env, batchVars, closeCalls, mainVars, workerVars, histVars>>

\* ------------------------------------------------- Lifecycle Controller
\* The record of a setShader invocation.  contended: another invocation was
\* unresolved at some moment this one was.
NewCall(p, running, at, viaInit) ==
  [code |-> p, wasRunning |-> running, pc |-> at, isInit |-> viaInit,
   readySeen |-> FALSE,
   contended |-> \E c \in DOMAIN calls : calls[c].pc # "done"]

\* The earlier invocations, those still unresolved marked as contended.
Contend(cs) ==
  [c \in DOMAIN cs |->
     IF cs[c].pc # "done" THEN [cs[c] EXCEPT !.contended = TRUE] ELSE cs[c]]

\* init(shaderCode): creates the audio context and the worker, then either
\* awaits setShader(shaderCode, offscreen) or starts the loop at once.
InitCall(p) ==
  /\ initStatus = "notcalled"
  /\ IF p = NoCode
     THEN /\ initStatus' = "resolved"
          /\ loopStarted' = TRUE
          /\ generationLoop
          /\ UNCHANGED <<shaderCode, workerReady, calls>>
     ELSE /\ shaderCode' = p
          /\ workerReady' = FALSE
          /\ inbox' = PostToWorker(inbox, InitMsg(p, Len(calls) + 1))
          /\ calls' = Append(calls, NewCall(p, FALSE, "wait2", TRUE))
          /\ initStatus' = "pending"
          /\ UNCHANGED <<loopStarted, generating, nextReq>>
  /\ UNCHANGED <<env, batchVars, closeCalls, deviceNow, isRunning, currentTime, scheduledUntil,
                 scheduledSources, maxTextureSize, disposed, worker, outbox,
                 units, period, staleReqs, discarded, events>>

\* User call start().  A call while running changes nothing and is not counted.
Start ==
  /\ initStatus # "notcalled"
  /\ isRunning \/ events < MaxEvents
  /\ events' = IF isRunning THEN events ELSE events + 1
  /\ start
  /\ UNCHANGED <<env, batchVars, closeCalls, deviceNow, scheduledSources, maxTextureSize,
                 generating, workerReady, shaderCode, initStatus, loopStarted,
                 calls, disposed, workerVars, units, nextReq, staleReqs,
                 discarded>>

\* User call stop().
Stop ==
  /\ initStatus # "notcalled"
  /\ events < MaxEvents
  /\ events' = events + 1
  /\ stop
  /\ UNCHANGED <<env, batchVars, closeCalls, deviceNow, maxTextureSize, generating, workerReady,
                 shaderCode, initStatus, loopStarted, calls, disposed,
                 workerVars, nextReq, period, discarded>>

\* User call setShader(p), up to its first await.
SetShader(p) ==
  /\ initStatus # "notcalled"
  /\ events < MaxEvents
  /\ events' = events + 1
  /\ shaderCode' = p
  /\ workerReady' = FALSE
  /\ IF isRunning
     THEN stop
     ELSE UNCHANGED <<isRunning, units, scheduledSources, currentTime,
                      scheduledUntil, staleReqs>>
  /\ inbox' = PostToWorker(inbox, UpdateMsg(p, Len(calls) + 1))
  /\ calls' = Append(Contend(calls), NewCall(p, isRunning, "wait1", FALSE))
  /\ UNCHANGED <<env, batchVars, closeCalls, deviceNow, maxTextureSize, generating, initStatus,
                 loopStarted, disposed, worker, outbox, nextReq, period,
                 discarded>>

\* The first readiness poll of call c finds workerReady set: the call restarts
\* playback if it had stopped it, then begins the second wait.
PollFirst(c) ==
  /\ c \in DOMAIN calls
  /\ calls[c].pc = "wait1"
  /\ workerReady
  /\ IF calls[c].wasRunning
     THEN start
     ELSE UNCHANGED <<isRunning, scheduledUntil, currentTime, period>>
  /\ calls' = [calls EXCEPT ![c].pc = "wait2"]
  /\ UNCHANGED <<env, batchVars, closeCalls, deviceNow, scheduledSources, maxTextureSize,
                 generating, workerReady, shaderCode, initStatus, loopStarted,
                 disposed, workerVars, units, nextReq, staleReqs, discarded, events>>

\* The second readiness poll of call c finds workerReady set: setShader
\* resolves; for the call made by init(), init starts the loop and resolves.
PollSecond(c) ==
  /\ c \in DOMAIN calls
  /\ calls[c].pc = "wait2"
  /\ workerReady
  /\ calls' = [calls EXCEPT ![c].pc = "done"]
  /\ IF calls[c].isInit
     THEN /\ initStatus' = "resolved"
          /\ loopStarted' = TRUE
          /\ generationLoop
     ELSE UNCHANGED <<initStatus, loopStarted, generating, inbox, nextReq>>
  /\ UNCHANGED <<env, batchVars, closeCalls, deviceNow, isRunning, currentTime, scheduledUntil,
                 scheduledSources, maxTextureSize, workerReady, shaderCode,
                 disposed, worker, outbox, units, period, staleReqs, discarded, events>>

\* The promise audioContext.close() returns when n calls of close() came
\* before: closing a closed AudioContext rejects with InvalidStateError, and
\* dispose() drops the promise, so the rejection is reported as unhandled.
CloseOutcome(n) == IF n = 0 THEN "resolved" ELSE "rejected"

\* User call dispose(): stop, terminate the worker, close the audio context.
Dispose ==
  /\ initStatus # "notcalled"
  /\ events < MaxEvents
  /\ events' = events + 1
  /\ stop
  /\ disposed' = TRUE
  /\ closeCalls' = closeCalls + 1
  /\ inbox' = <<>>
  /\ outbox' = <<>>
  /\ UNCHANGED <<env, batchVars, deviceNow, maxTextureSize, generating,
                 workerReady, shaderCode, initStatus, loopStarted, calls,
                 worker, nextReq, period, discarded>>

\* --------------------------------------------------- Background Renderer
\* updateShader that keeps a program once one is installed.
updateShaderKeepsFirst(w, code, c, stage) ==
  IF ~w.gl
  THEN [w |-> w, out |-> <<>>]
  ELSE IF ~Compiles(code, stage)
  THEN [w |-> w, out |-> <<ErrorMsg("Shader error", 0)>>]
  ELSE IF ~Links(code)
  THEN [w |-> [w EXCEPT !.program = code],
        out |-> <<ErrorMsg("Shader link error", 0)>>]
  ELSE [w |-> IF w.inUse = Null
              THEN [w EXCEPT !.program = code, !.inUse = code, !.builtBy = c]
              ELSE w,
        out |-> <<ReadyMsg(c)>>]

\* updateShader that makes the new program current before it checks the link.
updateShaderUsesUnlinked(w, code, c, stage) ==
  IF ~w.gl
  THEN [w |-> w, out |-> <<>>]
  ELSE IF ~Compiles(code, stage)
  THEN [w |-> w, out |-> <<ErrorMsg("Shader error", 0)>>]
  ELSE IF ~Links(code)
  THEN [w |-> [w EXCEPT !.program = code, !.inUse = code, !.builtBy = c],
        out |-> <<ErrorMsg("Shader link error", 0)>>]
  ELSE [w |-> [w EXCEPT !.program = code, !.inUse = code, !.builtBy = c],
        out |-> <<ReadyMsg(c)>>]

\* updateShader(shaderCode) in worker state w; c tags the answer with the call
\* it belongs to, stage is where the GL rejects a source that does not build.
\* Yields the new worker state and the messages posted.  A program that fails
\* to link replaces the program variable, but the one in use stays current.
updateShader(w, code, c, stage) ==
  IF ~w.gl
  THEN [w |-> w, out |-> <<>>]                       \* gl is null: TypeError
  ELSE IF ~Compiles(code, stage)
  THEN [w |-> w, out |-> <<ErrorMsg("Shader error", 0)>>]
  ELSE IF ~Links(code)
  THEN [w |-> [w EXCEPT !.program = code],
        out |-> <<ErrorMsg("Shader link error", 0)>>]
  ELSE [w |-> [w EXCEPT !.program = code, !.inUse = code, !.builtBy = c],
        out |-> <<ReadyMsg(c)>>]

\* setupWebGL(canvas, shaderCode)
setupWebGL(w, code, c, stage) ==
  IF ~env.hasGL
  THEN [w |-> w, out |-> <<ErrorMsg("WebGL2 not supported", 0)>>]
  ELSE IF ~env.hasFloatExt
  THEN [w |-> [w EXCEPT !.gl = TRUE],
        out |-> <<ErrorMsg("Float textures not supported", 0)>>]
  ELSE LET w1 == [w EXCEPT !.gl = TRUE, !.maxTextureSize = env.maxTex]
           r  == updateShader(w1, code, c, stage)
       IN [w |-> [r.w EXCEPT !.attribs = (r.w.program # Null /\ Compilable(r.w.program))],
           out |-> <<SizeMsg(env.maxTex)>> \o r.out]

\* generateAudio(numSamples, sampleRate, timeOffset); fbOK is the outcome of
\* checkFramebufferStatus when the render target is (re)allocated.
generateAudio(w, m, fbOK) ==
  LET clampedSamples == Min(m.numSamples, w.maxTextureSize)
  IN IF ~w.gl
     THEN [w |-> w, out |-> <<>>, audioData |-> FALSE]   \* gl is null: TypeError
     ELSE IF w.currentWidth # clampedSamples /\ ~fbOK
     THEN [w |-> w, out |-> <<RenderErrorMsg("Framebuffer error", m)>>,
           audioData |-> FALSE]
     ELSE [w |-> [w EXCEPT !.currentWidth = clampedSamples],
           out |-> <<>>,
           audioData |-> TRUE]

WorkerEnabled(t) ==
  /\ ~disposed
  /\ inbox # <<>>
  /\ Head(inbox).type = t

WorkerInit ==
  /\ WorkerEnabled("init")
  /\ \E stage \in FailStages :
       LET m == Head(inbox)
           r == setupWebGL(worker, m.shaderCode, m.id, stage)
       IN /\ worker' = r.w
          /\ outbox' = outbox \o r.out
  /\ inbox' = Tail(inbox)
  /\ UNCHANGED <<env, batchVars, closeCalls, deviceNow, mainVars, histVars>>

WorkerRender ==
  /\ WorkerEnabled("render")
  /\ \E fbOK \in (IF env.hasFloatExt THEN BOOLEAN ELSE {FALSE}) :
       LET m == Head(inbox)
           r == generateAudio(worker, m, fbOK)
           clampedSamples == Min(m.numSamples, worker.maxTextureSize)
       IN /\ worker' = r.w
          /\ outbox' = outbox \o r.out \o
               (IF r.audioData
                THEN <<AudioMsg(2 * clampedSamples, m.timeOffset, worker.builtBy, m.id)>>
                ELSE IF worker.gl
                THEN <<RenderErrorMsg("Generation failed", m)>>
                ELSE <<>>)
  /\ inbox' = Tail(inbox)
  /\ UNCHANGED <<env, batchVars, closeCalls, deviceNow, mainVars, histVars>>

WorkerUpdate ==
  /\ WorkerEnabled("updateShader")
  /\ \E stage \in FailStages :
       LET m == Head(inbox)
           r == updateShader(worker, m.shaderCode, m.id, stage)
       IN /\ worker' = r.w
          /\ outbox' = outbox \o r.out
  /\ inbox' = Tail(inbox)
  /\ UNCHANGED <<env, batchVars, closeCalls, deviceNow, mainVars, histVars>>

\* ---------------------------------------------------------- specification
Next ==
  \/ \E p \in InitPrograms : InitCall(p)
  \/ Start
  \/ Stop
  \/ \E p \in Programs : SetShader(p)
  \/ \E c \in DOMAIN calls : PollFirst(c)
  \/ \E c \in DOMAIN calls : PollSecond(c)
  \/ Dispose
  \/ Tick
  \/ OnReady
  \/ OnMaxTextureSize
  \/ OnAudioData
  \/ OnError
  \/ \E i \in DOMAIN units : Ended(i)
  \/ AdvanceClock
  \/ WorkerInit
  \/ WorkerRender
  \/ WorkerUpdate

Spec == Init /\ [][Next]_vars

\* What the two event loops guarantee: a queued message is eventually handled
\* (worker side and main side) and an armed interval timer eventually fires.
\* Nothing obliges the user to call anything or the clock to be read later.
WorkerStep   == WorkerInit \/ WorkerRender \/ WorkerUpdate
MainMessage  == OnReady \/ OnMaxTextureSize \/ OnAudioData \/ OnError
Polls        == \E c \in DOMAIN calls : PollFirst(c) \/ PollSecond(c)

\* The worker's and the main context's event loops do not stay idle while a
\* message is queued or an interval timer is due.
Fairness == WF_vars(WorkerStep \/ MainMessage \/ Polls)

\* The behaviours in which the device has the capabilities the worker needs,
\* init() is given a source, every source builds and dispose() is not called.
BuildingPrograms     == {p \in Programs : Compilable(p)}
BuildingInitPrograms == {p \in InitPrograms : Compilable(p)}
BuildingInit == Init /\ env.hasGL /\ env.hasFloatExt
BuildingNext ==
  \/ \E p \in BuildingInitPrograms : InitCall(p)
  \/ Start
  \/ Stop
  \/ \E p \in BuildingPrograms : SetShader(p)
  \/ \E c \in DOMAIN calls : PollFirst(c)
  \/ \E c \in DOMAIN calls : PollSecond(c)
  \/ Tick
  \/ OnReady
  \/ OnMaxTextureSize
  \/ OnAudioData
  \/ OnError
  \/ \E i \in DOMAIN units : Ended(i)
  \/ AdvanceClock
  \/ WorkerInit
  \/ WorkerRender
  \/ WorkerUpdate

FairSpec == BuildingInit /\ [][BuildingNext]_vars /\ Fairness

\* Steady load: a capable device, init() with a source that builds, start(),
\* every render succeeding, and the device clock advancing by small quanta only
\* while generation has kept up.
SteadyNext ==
  \/ \E p \in BuildingInitPrograms : InitCall(p)
  \/ Start
  \/ \E c \in DOMAIN calls : PollSecond(c)
  \/ SteadyTick
  \/ OnReady
  \/ OnMaxTextureSize
  \/ OnAudioData
  \/ \E i \in DOMAIN units : Ended(i)
  \/ Playback
  \/ WorkerInit
  \/ WorkerRender /\ outbox'[Len(outbox')].type = "audioData"

SteadySpec ==
  BuildingInit /\ [][SteadyNext]_vars /\ Fairness /\ WF_vars(SteadyTick)

\* Every behaviour of the program, under the same fairness.
LiveSpec == Spec /\ Fairness

\* ------------------------------------------------------------ properties
RenderRequestsQueued ==
  Cardinality({i \in DOMAIN inbox : inbox[i].type = "render"})

\* C1: at every reachable state at most one render request has been posted to
\* the worker and not yet processed by it.
C1_AtMostOneInFlight == RenderRequestsQueued <= 1

\* C2: a render request that was in flight when stop() was called never becomes
\* a PlaybackUnit (so it advances neither currentTime nor scheduledUntil),
\* whatever happens between the stop() and the arrival of its result.
C2_StaleResultDiscarded ==
  \A i \in DOMAIN units : units[i].req \notin staleReqs

Live(i) == ~units[i].halted
EndTime(i) == units[i].startTime + units[i].duration

\* C3: no two scheduled PlaybackUnits that are not halted overlap: each unit
\* starts at or after the end of every unit scheduled before it.
C3_NoOverlap ==
  \A i, j \in DOMAIN units :
    (i < j /\ Live(i) /\ Live(j)) => EndTime(i) <= units[j].startTime

\* Two live units were scheduled one after the other, the second both from the
\* watermark and from the safety margin.
C3_Witness ==
  \E i, j \in DOMAIN units :
    /\ i < j /\ Live(i) /\ Live(j)
    /\ units[j].startTime = EndTime(i)
    /\ units[i].startTime > units[i].watermark

\* C4: inside one Running period scheduledUntil never decreases.
C4_WatermarkMonotone ==
  [][(isRunning /\ isRunning') => scheduledUntil' >= scheduledUntil]_vars

\* A running instance whose watermark has been advanced by two units of the
\* current period.
C4_Witness ==
  /\ isRunning
  /\ \E i, j \in DOMAIN units :
       /\ i < j /\ units[i].period = period /\ units[j].period = period
       /\ scheduledUntil = EndTime(j)
       /\ scheduledUntil > deviceNow

\* C5: from a state in which isRunning is false no step posts a render request
\* and no step schedules a PlaybackUnit.
C5_IdleWhenStopped ==
  [][~isRunning => (nextReq' = nextReq /\ Len(units') = Len(units))]_vars

\* Stopped, the loop is ticking, and a chunk that arrived was dropped.
C5_Witness ==
  /\ ~isRunning
  /\ loopStarted
  /\ workerReady
  /\ ~generating
  /\ discarded # {}

\* A step in which stop() runs: the user's stop(), dispose(), or setShader()
\* called while running.
StopRuns ==
  \/ Stop
  \/ Dispose
  \/ (isRunning /\ \E p \in Programs : SetShader(p))

\* C6: immediately after stop() the instance is not running, every unit that
\* was tracked is halted, the tracked set is empty and the timeline is at 0.
C6_StopResets ==
  [][StopRuns =>
       /\ ~isRunning'
       /\ \A i \in Range(scheduledSources) : units'[i].halted
       /\ scheduledSources' = <<>>
       /\ currentTime' = 0
       /\ scheduledUntil' = 0]_vars

\* stop() has halted a unit that was tracked, and the timeline is reset.
C6_Witness ==
  /\ ~isRunning
  /\ \E i \in DOMAIN units : units[i].halted
  /\ scheduledSources = <<>>
  /\ currentTime = 0
  /\ scheduledUntil = 0

RECURSIVE DurationBefore(_, _)
\* Sum of the durations of the units of unit i's period scheduled among the
\* first n units.
DurationBefore(i, n) ==
  IF n = 0 THEN 0
  ELSE DurationBefore(i, n - 1) +
       (IF units[n].period = units[i].period THEN units[n].duration ELSE 0)

\* C7: every unit was rendered with a timeOffset equal to the total duration
\* of the units scheduled before it in the same Running period.
C7_ContinuousProgramTime ==
  \A i \in DOMAIN units : units[i].timeOffset = DurationBefore(i, i - 1)

\* C8: setShader(P) called while running, P building: (a) the call stops
\* playback, (b) no unit is scheduled until the ready message for P has
\* arrived, (c) the call then resumes playback with currentTime = 0.
C8_SwapStopsUntilReady ==
  /\ [][(isRunning /\ \E p \in Programs : Compilable(p) /\ SetShader(p))
         => ~isRunning']_vars
  /\ [](\A i \in DOMAIN units : ~units[i].swapping)
  /\ [][\A c \in DOMAIN calls :
          (PollFirst(c) /\ calls[c].wasRunning /\ Compilable(calls[c].code))
            => (isRunning' /\ currentTime' = 0)]_vars

\* The init message has been handled by the worker and everything the worker
\* answered to it has been handled by the main context.
InitAnswered ==
  /\ initStatus # "notcalled"
  /\ ~disposed
  /\ \E c \in DOMAIN calls : calls[c].isInit
  /\ \A i \in DOMAIN inbox : inbox[i].type # "init"
  /\ outbox = <<>>

CapabilityMissing == ~(env.hasGL /\ env.hasFloatExt)

\* C10: when the WebGL2 context or the float render-target extension is
\* missing, init(program) is rejected once the worker has reported it.
C10_InitRejected ==
  (CapabilityMissing /\ InitAnswered) => initStatus = "rejected"

\* The renderer can work: the device has the capability, init() was given a
\* source (so the worker received the canvas), every source submitted so far
\* builds, and the instance has not been disposed.
Benign ==
  /\ env.hasGL /\ env.hasFloatExt
  /\ initStatus # "notcalled" => \E c \in DOMAIN calls : calls[c].isInit
  /\ ~disposed
  /\ \A c \in DOMAIN calls : Compilable(calls[c].code)

\* The worker has handled every init and updateShader message posted so far.
UpdatesHandled ==
  \A i \in DOMAIN inbox : inbox[i].type \notin {"init", "updateShader"}

\* Once the worker has handled the updates, the program in use is the one
\* built for the latest setShader call, from the source the instance holds.
LastWriteWins ==
  (Benign /\ calls # <<>> /\ UpdatesHandled)
    => (worker.builtBy = Len(calls) /\ worker.inUse = shaderCode)

Contended(c) == c \in DOMAIN calls /\ calls[c].contended
Resolved(c)  == c \in DOMAIN calls /\ calls[c].pc = "done"

\* Some call that overlapped another one has not resolved yet.
Unresolved == \E c \in DOMAIN calls : Contended(c) /\ ~Resolved(c)

Waiting == \E c \in DOMAIN calls : ~calls[c].isInit /\ calls[c].pc # "done"

\* The renderer can answer: the device has the capabilities, init() handed the
\* canvas to the worker and the worker has not been terminated.
RendererAnswers ==
  /\ env.hasGL /\ env.hasFloatExt
  /\ \E c \in DOMAIN calls : calls[c].isInit
  /\ ~disposed

\* C11: under fair delivery of worker messages and timer ticks every setShader
\* call eventually stops waiting, also when its program fails to compile or
\* link (the renderer being there to answer).
C11_WaitTerminates == Waiting ~> (~Waiting \/ ~RendererAnswers)

\* ------------------------------------------------------------------ C12
\* This step is the worker handling an init or updateShader message whose
\* source does not build.
FailedUpdateStep ==
  /\ ~disposed /\ inbox # <<>>
  /\ Head(inbox).type \in {"init", "updateShader"}
  /\ ~Compilable(Head(inbox).shaderCode)
  /\ inbox' = Tail(inbox) /\ ~disposed'

\* C12: an update that fails to compile or to link leaves the program in use
\* in the renderer as it was, so later render requests are evaluated with it.
C12_FailedUpdateKeepsProgram ==
  [][FailedUpdateStep =>
       (worker'.inUse = worker.inUse /\ worker'.builtBy = worker.builtBy)]_vars

\* An update failed at the link stage and the render request handled after it
\* was evaluated with the program that was in use before.
C12_Witness ==
  /\ worker.inUse # Null
  /\ worker.program # worker.inUse
  /\ \E i, j \in DOMAIN outbox :
       /\ i < j
       /\ outbox[i].type = "error" /\ outbox[i].error = "Shader link error"
       /\ outbox[j].type = "audioData" /\ outbox[j].prog = worker.builtBy

\* ------------------------------------------------------------------ C13
\* This step is the main context handling the error message of a failed
\* render request.
RenderFailureStep ==
  /\ outbox # <<>> /\ Head(outbox).type = "error"
  /\ Head(outbox).error \in RenderErrors
  /\ outbox' = Tail(outbox) /\ ~disposed'

\* This step posts a render request (to a worker that is not terminated).
PostStep == nextReq' = nextReq + 1 /\ ~disposed

\* C13: handling a failed render clears the in-flight flag, schedules nothing
\* and leaves currentTime, scheduledUntil and the tracked units as they were,
\* with currentTime still at the failed request's timeOffset; and a request is
\* always posted with timeOffset = currentTime, so the next one posted asks for
\* the same timeOffset.
C13_RenderFailureDropsChunk ==
  [][ /\ RenderFailureStep =>
          /\ ~generating'
          /\ units' = units /\ scheduledSources' = scheduledSources
          /\ currentTime' = currentTime /\ scheduledUntil' = scheduledUntil
          /\ currentTime' = Head(outbox).timeOffset
      /\ PostStep => inbox'[Len(inbox')].timeOffset = currentTime ]_vars

\* A failed render has been reported (its second error message is still
\* queued) and the tick after the first report has posted a new request with
\* the same timeOffset.
C13_Witness ==
  \E i \in DOMAIN outbox, j \in DOMAIN inbox :
    /\ outbox[i].type = "error" /\ outbox[i].error = "Generation failed"
    /\ inbox[j].type = "render" /\ inbox[j].id > outbox[i].id
    /\ inbox[j].timeOffset = outbox[i].timeOffset
    /\ isRunning

\* ------------------------------------------------------------------ C14
\* This step is a call of dispose().
DisposeStep == closeCalls' = closeCalls + 1

\* C14: a dispose() on an instance already disposed leaves it as the first
\* dispose() left it (stopped, timeline reset, nothing tracked, worker
\* terminated, device closed) and reports no error.
C14_DisposeIdempotent ==
  [][(DisposeStep /\ closeCalls >= 1) =>
       /\ ~isRunning' /\ currentTime' = 0 /\ scheduledUntil' = 0
       /\ scheduledSources' = <<>> /\ disposed'
       /\ CloseOutcome(closeCalls) = "resolved"]_vars

\* ------------------------------------------------------------------ C15
\* C15: no start() takes effect while the instance is running (no step from a
\* running state begins a Running period); a step that takes the instance from
\* stopped to running sets currentTime = 0 and scheduledUntil = deviceNow and
\* posts no render request.
C15_StartFrame ==
  [][ /\ isRunning => period' = period
      /\ (~isRunning /\ isRunning') =>
           /\ period' = period + 1
           /\ currentTime' = 0 /\ scheduledUntil' = deviceNow
           /\ nextReq' = nextReq /\ inbox' = inbox /\ generating' = generating
    ]_vars

\* start() has just run on a stopped instance, the device clock being past 0.
C15_Witness ==
  /\ isRunning /\ period >= 1 /\ deviceNow > 0
  /\ scheduledUntil = deviceNow /\ currentTime = 0
  /\ \A i \in DOMAIN units : units[i].period < period

\* ------------------------------------------------------------------ C17
\* Unit i was scheduled while generation kept up: its request was made in the
\* Running period it plays in and the buffer had not drained when its chunk
\* arrived (the watermark was not behind the device clock).
KeptUp(i) ==
  /\ units[i].req \notin staleReqs
  /\ units[i].watermark >= units[i].now

\* C17: a unit scheduled while generation keeps up, the first one after
\* start() included, starts at the watermark scheduledUntil had just before, so
\* the watermark advances by exactly the chunk's duration.
C17_NoGap ==
  \A i \in DOMAIN units :
    KeptUp(i) => units[i].startTime = units[i].watermark

\* ------------------------------------------------------------------ C16
\* bufferedTime = scheduledUntil - deviceNow, measured just after unit i was
\* scheduled.
BufferedAfter(i) == units[i].startTime + units[i].duration - units[i].now

\* That measure lies within [lookahead target, target + one chunk duration].
InBand(i) ==
  /\ BufferAheadTime <= BufferedAfter(i)
  /\ BufferedAfter(i) <= BufferAheadTime + units[i].duration

\* Some schedule of the current Running period left bufferedTime in the band.
Entered == \E i \in DOMAIN units : units[i].period = period /\ InBand(i)

ChunkStep ==
  /\ ~disposed /\ inbox # <<>> /\ Head(inbox).type = "render"
  /\ inbox' = Tail(inbox) /\ ~disposed'
  /\ Len(outbox') = Len(outbox) + 1
  /\ outbox'[Len(outbox')].type = "audioData"

\* C18: every render request is posted with numSamples = min(width the worker
\* discovered, 8192), which is not above the worker's maximum width, and the
\* chunk the worker returns has exactly the requested number of samples.
C18_SampleCount ==
  [][ /\ PostStep =>
           /\ worker.maxTextureSize = env.maxTex
           /\ inbox'[Len(inbox')].numSamples = Min(worker.maxTextureSize, HardCap)
           /\ inbox'[Len(inbox')].numSamples <= worker.maxTextureSize
      /\ ChunkStep =>
           outbox'[Len(outbox')].size = 2 * Head(inbox).numSamples ]_vars

\* ------------------------------------------------------------------ C19
\* The issue condition as the claim states it.
IssueCondition ==
  /\ isRunning
  /\ scheduledUntil - deviceNow < 1 * SampleRate
  /\ workerReady
  /\ ~generating

\* C19: a scheduler tick posts a render request if and only if the issue
\* condition holds at that tick: whenever it holds a tick posts one (as long as
\* the behaviour may post more), and every step that posts one starts where it
\* holds; so none is posted while the readiness flag is down after setShader.
C19_TickPostsIffCondition ==
  /\ []((loopStarted /\ IssueCondition /\ nextReq < MaxRenders)
          => ENABLED <<Tick>>_vars)
  /\ [][nextReq' = nextReq + 1 => IssueCondition]_vars

\* A tick has posted a request that is still queued, the condition having
\* held; a setShader call then took the readiness flag down.
C19_Witness ==
  /\ \E i \in DOMAIN inbox : inbox[i].type = "render" /\ inbox[i].id = nextReq
  /\ generating /\ ~workerReady
  /\ \E c \in DOMAIN calls : ~calls[c].isInit /\ calls[c].pc = "wait1"

\* ------------------------------------------------------------------ C20
\* C20: when the worker evaluates a render request, the program in use was
\* built for a call not older than any building setShader call made before the
\* request was posted: the update of such a call has been processed, and no
\* program installed before it is used.
C20_RequestSeesProgram ==
  [][ChunkStep =>
        \A c \in 1..Head(inbox).after :
          Compilable(calls[c].code) => worker.builtBy >= c]_vars

\* A request posted after a user setShader call, before that call's ready
\* message reached the main context, has been evaluated with the call's
\* program.
C20_Witness ==
  \E i, j \in DOMAIN outbox :
    /\ i < j
    /\ outbox[i].type = "ready" /\ outbox[i].id > 1
    /\ outbox[j].type = "audioData" /\ outbox[j].prog = outbox[i].id

\* ======================================================================
\* Batch variant (src/index.js): WebGLAudioShader pre-generates the whole
\* buffer on the main context with a WebGLShaderRenderer it owns.  setShader
\* is an async function: it runs to its next await in one task and is
\* resumed by a zero-delay timer; user calls run between those tasks.
\* ======================================================================
chunkSize  == 8192
numSamples == BatchSeconds * SampleRate
numChunks  == (numSamples + chunkSize - 1) \div chunkSize

\* new WebGLShaderRenderer(code) returns: it throws without WebGL2, without
\* EXT_color_buffer_float, and on a compile or link error.
Constructs(p) == env.hasGL /\ env.hasFloatExt /\ Compilable(p)

\* The renderer as its constructor leaves it.
NewRenderer(p) == [code |-> p, canvasInDom |-> TRUE, disposed |-> FALSE,
                   chunks |-> 0]

\* WebGLShaderRenderer.dispose on renderer k of rs.
RendererDispose(rs, k) ==
  [rs EXCEPT ![k].canvasInDom = FALSE, ![k].disposed = TRUE]

\* this.shader.dispose() guarded by if (this.shader).
DisposeShader(pl, rs) ==
  IF pl.shader # 0 THEN RendererDispose(rs, pl.shader) ELSE rs

\* stop() of the batch instance.
batchStop(pl) == [pl EXCEPT !.sourceNode = FALSE, !.isRunning = FALSE]

\* start() of the batch instance.
batchStart(pl) ==
  IF pl.audioBuffer = 0
  THEN pl
  ELSE [pl EXCEPT !.sourceNode = TRUE, !.isRunning = TRUE]

\* The last chunk the loop generates from chunk c on before it awaits or ends.
RECURSIVE SegmentLast(_)
SegmentLast(c) ==
  IF c % 10 = 0 \/ c >= numChunks - 1 THEN c ELSE SegmentLast(c + 1)

\* The chunk loop of setShader invocation r from chunk c on, up to its next
\* await or to the end of the function, starting from the instance pl, the
\* renderers rs, the invocations rn and the pending timers tm.  Each chunk is
\* generated by this.shader as it is when the chunk is reached.
ChunkLoop(pl, rs, rn, tm, r, c) ==
  LET generates == c < numChunks
      last      == IF generates THEN SegmentLast(c) ELSE c
      yields    == generates /\ last % 10 = 0
      k         == pl.shader
      pl2       == [pl EXCEPT !.audioBuffer = r]
  IN  /\ asked' = IF generates
                  THEN Append(asked, [run |-> r, renderer |-> k, first |-> c,
                                      last |-> last,
                                      afterDispose |-> rs[k].disposed])
                  ELSE asked
      /\ renderers' = IF generates
                      THEN [rs EXCEPT ![k].chunks = @ + (last - c + 1)]
                      ELSE rs
      /\ IF yields
         THEN /\ runs' = [rn EXCEPT ![r].chunk = last]
              /\ timers' = Append(tm, r)
              /\ player' = pl
         ELSE /\ runs' = [rn EXCEPT ![r].pc = "done", ![r].chunk = last]
              /\ timers' = tm
              /\ player' = IF rn[r].wasRunning THEN batchStart(pl2) ELSE pl2

\* setShader(p) up to its first await, its return or its throw.
batchSetShader(pl0, p) ==
  LET wasRunning == pl0.isRunning
      pl1 == IF wasRunning THEN batchStop(pl0) ELSE pl0
      rs1 == DisposeShader(pl1, renderers)
      r   == Len(runs) + 1
      run == [code |-> p, wasRunning |-> wasRunning, chunk |-> 0,
              pc |-> "yield"]
  IN  IF ~Constructs(p)
      THEN /\ player' = pl1
           /\ renderers' = rs1
           /\ runs' = Append(runs, [run EXCEPT !.pc = "rejected"])
           /\ UNCHANGED <<timers, asked>>
      ELSE LET rs2 == Append(rs1, NewRenderer(p))
               pl2 == [pl1 EXCEPT !.shader = Len(rs2)]
           IN  IF pl2.audioContext = Null
               THEN /\ player' = pl2
                    /\ renderers' = rs2
                    /\ runs' = Append(runs, [run EXCEPT !.pc = "rejected"])
                    /\ UNCHANGED <<timers, asked>>
               ELSE ChunkLoop(pl2, rs2, Append(runs, run), timers, r, 0)

streamVars == <<env, deviceNow, closeCalls, mainVars, workerVars, histVars>>

BatchCall ==
  /\ batchEvents < MaxBatchEvents
  /\ batchEvents' = batchEvents + 1
  /\ UNCHANGED streamVars

\* User call init(p).
BatchInit(p) ==
  /\ BatchCall
  /\ LET pl == [player EXCEPT !.audioContext = "open"]
     IN  IF p # NoCode
         THEN batchSetShader(pl, p)
         ELSE /\ player' = pl
              /\ UNCHANGED <<renderers, runs, timers, asked>>

\* User call setShader(p).
BatchSetShader(p) ==
  /\ BatchCall
  /\ batchSetShader(player, p)

\* User call start().
BatchStart ==
  /\ BatchCall
  /\ player' = batchStart(player)
  /\ UNCHANGED <<renderers, runs, timers, asked>>

\* User call stop().
BatchStop ==
  /\ BatchCall
  /\ player' = batchStop(player)
  /\ UNCHANGED <<renderers, runs, timers, asked>>

\* User call dispose().
BatchDispose ==
  /\ BatchCall
  /\ LET pl == batchStop(player)
     IN  /\ renderers' = DisposeShader(pl, renderers)
         /\ player' = IF pl.audioContext # Null
                      THEN [pl EXCEPT !.audioContext = "closed"]
                      ELSE pl
  /\ UNCHANGED <<runs, timers, asked>>

\* The oldest pending timer fires: the invocation that awaits it goes on with
\* the next chunk.
BatchResume ==
  /\ timers # <<>>
  /\ LET r == Head(timers)
     IN  ChunkLoop(player, renderers, runs, Tail(timers), r, runs[r].chunk + 1)
  /\ UNCHANGED <<streamVars, batchEvents>>

BatchNext ==
  \/ \E p \in InitPrograms : BatchInit(p)
  \/ \E p \in Programs : BatchSetShader(p)
  \/ BatchStart
  \/ BatchStop
  \/ BatchDispose
  \/ BatchResume

BatchSpec == Init /\ [][BatchNext]_vars

\* C21: in the batch variant, no generateAudio call is made on a renderer
\* whose dispose() has already been called, whatever user calls (a second
\* setShader, dispose) run at the await points of a setShader in progress.
C21_NoGenerateAfterDispose ==
  \A i \in DOMAIN asked : ~asked[i].afterDispose

====
